---------------------------- MODULE Spec2Model ----------------------------
(***************************************************************************)
(* State-machine model of the instruction assistant (App component,        *)
(* src/unnamed/part_002) together with the generation service it imports   *)
(* (src/unnamed/part_007) and the child components that decide which       *)
(* handlers the user can reach (RecipeDisplay.tsx, ActionButtons.tsx,      *)
(* the chat form of src/unnamed/part_005, the URL form of part_006).       *)
(*                                                                         *)
(* One action is one run-to-completion block of JavaScript: an event       *)
(* handler up to its first await, or the continuation of an await.  All    *)
(* setState calls of one block are applied together (React batches the     *)
(* updates of one task and renders afterwards), and a handler called from  *)
(* the UI closes over the values of the render it was created in, which    *)
(* are the current ones; a continuation keeps the values its handler       *)
(* closed over, which may be stale by the time it runs.                    *)
(***************************************************************************)
EXTENDS Naturals, Sequences, FiniteSets

\* ------------------------------------------------------------- bounds
MaxSteps == 2      \* longest step list a capability response carries
MaxTasks == 2      \* async handler invocations in flight at once
MaxOps == 4        \* user and recognizer events in one behaviour

\* ------------------------------------------------------------- values
\* JavaScript undefined for an optional field, kept a string so that
\* every field has one type.
Undef == "undef"

Falsy(x) == x \in {Undef, "false", ""}

Truthy(x) == ~Falsy(x)

\* instructionSet === null
NullDoc == [null |-> TRUE]

\* A step list: isArray is Array.isArray(steps); items is empty when the
\* field is missing or not an array.
StepsOf(n) == [isArray |-> TRUE, items |-> [i \in 1..n |-> "s"]]

NoSteps == [isArray |-> FALSE, items |-> <<>>]

MkDoc(t, m, s, src, food, hap, sug) ==
    [title |-> t, materials |-> m, steps |-> s, sources |-> src,
     isFood |-> food, hasAnimalProducts |-> hap,
     sustainabilitySuggestion |-> sug]

\* new Array(n).fill(false)
AllFalse(n) == [i \in 1..n |-> FALSE]

WellFormed(d) ==
    /\ d # NullDoc
    /\ Truthy(d.title)
    /\ d.materials # Undef
    /\ d.steps.isArray

\* What JSON.parse hands back for an extraction: the capability is opaque,
\* so the fields are whatever the model put in the JSON.
ExtractResponses ==
    { MkDoc("A", "M", StepsOf(MaxSteps), src, "true", hap, Undef) :
        src \in {Undef, "S1"}, hap \in {"true", "false"} }
    \cup { MkDoc("A", "M", StepsOf(1), Undef, "false", Undef, Undef),
           MkDoc("A", "M", NoSteps, "S1", "true", "false", Undef) }

\* What JSON.parse hands back for a transformation.
ModifyResponses ==
    { MkDoc("B", "M", StepsOf(n), Undef, Undef, hap, Undef) :
        n \in {1, MaxSteps}, hap \in {Undef, "true"} }
    \cup { MkDoc("B", "M", StepsOf(1), "S2", "false", "false", "g2"),
           MkDoc("B", "M", StepsOf(0), Undef, Undef, Undef, Undef),
           MkDoc("", "M", StepsOf(1), Undef, Undef, Undef, Undef),
           MkDoc("B", Undef, StepsOf(1), Undef, Undef, Undef, Undef),
           MkDoc("B", "M", NoSteps, Undef, Undef, Undef, Undef) }

\* getSustainableSuggestion: a trimmed text, or null on failure.
Suggestions == {Undef, "g1"}

Msg(r, c) == [role |-> r, content |-> c]

Idle == [kind |-> "idle"]

Ev(o, e, d) == [op |-> o, eco |-> e, dirty |-> d]

VARIABLES
    instructionSet,         \* useState<InstructionSet | null>
    isLoading,
    isAnswering,
    isModifying,
    isEcoApplied,
    error,                  \* useState<string | null>: Undef or the text
    chatHistory,
    isMuted,
    completedSteps,
    isReadingInstructions,
    hasPrimed,
    synth,                  \* window.speechSynthesis: queued utterances
    tasks,                  \* suspended async handler invocations
    crashed,                \* a render threw: React unmounted the tree
    nOps,                   \* user and recognizer events so far
    lastEvent,              \* the block that ran last (history variable)
    isContinuousListening,
    recognizing,            \* the mounted ChatInterface's recognizer is started
    pendingEnd,             \* cancelled utterances with a callback whose
                            \* end/error event the browser has yet to settle
    oldRecognizers          \* recognizers that were started and then replaced,
                            \* as the isContinuousListening their handlers
                            \* closed over: onerror stays attached to them

vars == <<instructionSet, isLoading, isAnswering, isModifying, isEcoApplied,
          error, chatHistory, isMuted, completedSteps,
          isReadingInstructions, hasPrimed, synth, tasks, crashed, nOps,
          lastEvent, isContinuousListening, recognizing, pendingEnd,
          oldRecognizers>>

Init ==
    /\ instructionSet = NullDoc
    /\ isLoading = FALSE
    /\ isAnswering = FALSE
    /\ isModifying = FALSE
    /\ isEcoApplied = FALSE
    /\ error = Undef
    /\ chatHistory = <<>>
    /\ isMuted = FALSE
    /\ completedSteps = <<>>
    /\ isReadingInstructions = FALSE
    /\ hasPrimed = FALSE
    /\ synth = <<>>
    /\ tasks = [t \in 1..MaxTasks |-> Idle]
    /\ crashed = FALSE
    /\ nOps = 0
    /\ lastEvent = Ev("init", FALSE, FALSE)
    /\ isContinuousListening = FALSE
    /\ recognizing = FALSE
    /\ pendingEnd = 0
    /\ oldRecognizers = {}

\* ------------------------------------------------------------- speech
Utt(text, cb) == [text |-> text, cb |-> cb]

\* primeSpeech as closed over a render whose hasPrimed is `primed`: a silent
\* empty utterance is queued once.
Primed(q, primed) == IF primed THEN q ELSE Append(q, Utt("", FALSE))

\* speak(text) without a completion callback: nothing when muted, otherwise
\* cancel() and queue the one new utterance.
Speak_NoCancel(q, muted, text) ==
    IF muted THEN q ELSE Append(q, Utt(text, FALSE))

Speak(q, muted, text) == IF muted THEN q ELSE <<Utt(text, FALSE)>>

\* the utterances of a queue that carry a completion callback
CbCount(q) == Cardinality({i \in 1..Len(q) : q[i].cb})

\* window.speechSynthesis.cancel() empties the queue.  Whether and when an
\* end or error event then reaches a removed utterance is left to the
\* browser: each removed utterance with a callback becomes an event that
\* is still to be delivered (CancelledEnd) or discarded (CancelledSilent).
PendingAfterCancel(p, q) == p + CbCount(q)

\* speak cancels only when it is not muted
PendingAfterSpeak(p, q, muted) == IF muted THEN p ELSE PendingAfterCancel(p, q)

\* ------------------------------------------------------------- rendering
\* <InstructionDisplay> is mounted
DisplayVisible == instructionSet # NullDoc /\ ~isLoading

\* <ChatInterface> is mounted
ChatVisible == Len(chatHistory) > 0 /\ ~isLoading

\* the state of App: a block that changes none of it causes no render
ReactState == <<instructionSet, isLoading, isAnswering, isModifying,
                isEcoApplied, error, chatHistory, isMuted, completedSteps,
                isReadingInstructions, hasPrimed, isContinuousListening>>

\* The recognizer after a block.  ChatInterface's recognition effect
\* depends on onSendMessage and onToggleListening, and App passes a new
\* onToggleListening in every render: each render of App aborts the
\* recognizer and creates a new one, which the listening effect starts
\* only if isContinuousListening changed in that render (or on mount).
RecognizerAfter ==
    IF crashed' \/ ~ChatVisible' THEN FALSE
    ELSE IF ~ChatVisible THEN isContinuousListening'
    ELSE IF ReactState' = ReactState THEN recognizing
    ELSE isContinuousListening' /\ ~isContinuousListening

\* The cleanup of the recognition effect sets onend to null and aborts the
\* recognizer, and leaves its onerror attached: a recognizer that was
\* running and is replaced in this block joins `old`, with the
\* isContinuousListening its onToggleListening closed over.
OldRecognizersAfter(old) ==
    IF recognizing /\ ~recognizing'
    THEN old \cup {isContinuousListening}
    ELSE old

\* InstructionDisplay maps over materials and steps: a document whose
\* materials or steps is not an array makes the render throw, and with no
\* error boundary React unmounts the whole tree.
RenderThrows(doc, loading) ==
    /\ doc # NullDoc
    /\ ~loading
    /\ (doc.materials = Undef \/ ~doc.steps.isArray)

\* the lowest free task slot
FreeSlot(t) ==
    /\ tasks[t] = Idle
    /\ \A u \in 1..MaxTasks : u < t => tasks[u] # Idle

\* An event of the user or of the recognizer can be dispatched: the tree is
\* mounted (after an unmount nothing of the application is observable any
\* more, and the model stops there), and the behaviour has events left.
CanAct == ~crashed /\ nOps < MaxOps

AnyDone(cs) == \E i \in 1..Len(cs) : cs[i]

\* ------------------------------------------------------------- load
\* UrlInputForm submit -> handleFetchInstructions(url), url non-empty
\* (the input is `required`).  The submit is preceded by the click that
\* bubbles to the root's onClick={primeSpeech}.
FetchStart(t) ==
    /\ CanAct
    /\ ~(isLoading \/ isModifying)
    /\ FreeSlot(t)
    /\ synth' = Primed(synth, hasPrimed)
    /\ hasPrimed' = TRUE
    /\ isLoading' = TRUE
    /\ error' = Undef
    /\ chatHistory' = <<>>
    /\ isReadingInstructions' = FALSE
    /\ isEcoApplied' = FALSE
    /\ tasks' = [tasks EXCEPT ![t] = [kind |-> "load", stage |-> "extract"]]
    /\ crashed' = RenderThrows(instructionSet, TRUE)
    /\ nOps' = nOps + 1
    /\ lastEvent' = Ev("fetchStart", FALSE, FALSE)
    /\ UNCHANGED <<instructionSet, isAnswering, isModifying, isMuted,
                   completedSteps>>
    /\ UNCHANGED <<isContinuousListening, pendingEnd>>
    /\ recognizing' = RecognizerAfter
    /\ oldRecognizers' = OldRecognizersAfter(oldRecognizers)

\* setCompletedSteps(new Array(data.steps.length).fill(false)) of the load
CompletedAfterLoad_Keep(data) ==
    [i \in 1..Len(data.steps.items) |->
        i <= Len(completedSteps) /\ completedSteps[i]]

CompletedAfterLoad(data) == AllFalse(Len(data.steps.items))

\* setChatHistory([{ role: Role.ASSISTANT, content: msg }]) of the load: the
\* history `h` of the moment is replaced, not extended
ChatAfterLoad_Append(h) == Append(h, Msg("assistant", "loaded"))

ChatAfterLoad(h) == <<Msg("assistant", "loaded")>>

\* lines 77-90 and the catch/finally of handleFetchInstructions, for the
\* extracted document `data` and the value `eco` last given to
\* setIsEcoApplied by lines 66-75.
FinishLoad(t, data, eco) ==
    /\ instructionSet' = data
    /\ isEcoApplied' = eco
    /\ isLoading' = FALSE
    /\ tasks' = [tasks EXCEPT ![t] = Idle]
    /\ crashed' = RenderThrows(data, FALSE)
    /\ IF data.steps.isArray
       THEN /\ completedSteps' = CompletedAfterLoad(data)
            /\ chatHistory' = ChatAfterLoad(chatHistory)
            /\ synth' = Speak(synth, isMuted, "welcome")
            /\ pendingEnd' = PendingAfterSpeak(pendingEnd, synth, isMuted)
            /\ error' = error
            /\ lastEvent' = Ev("loadOk", eco, AnyDone(completedSteps))
       ELSE \* data.steps.length throws after setInstructionSet(data)
            /\ error' = "Error loading URL."
            /\ lastEvent' = Ev("loadThrow", eco, AnyDone(completedSteps))
            /\ UNCHANGED <<completedSteps, chatHistory, synth, pendingEnd>>
    /\ UNCHANGED <<isAnswering, isModifying, isMuted, isReadingInstructions,
                   hasPrimed, nOps>>
    /\ UNCHANGED isContinuousListening
    /\ recognizing' = RecognizerAfter
    /\ oldRecognizers' = OldRecognizersAfter(oldRecognizers)

\* extractInstructionsFromUrl resolves with `data`
ExtractReturn(t, data) ==
    /\ ~crashed
    /\ tasks[t].kind = "load"
    /\ tasks[t].stage = "extract"
    /\ IF Truthy(data.isFood) /\ Truthy(data.hasAnimalProducts)
       THEN \* await getSustainableSuggestion(...)
            /\ tasks' = [tasks EXCEPT ![t] =
                           [kind |-> "load", stage |-> "suggest", data |-> data]]
            /\ lastEvent' = Ev("extracted", FALSE, FALSE)
            /\ UNCHANGED <<instructionSet, isLoading, isAnswering, isModifying,
                           isEcoApplied, error, chatHistory, isMuted,
                           completedSteps, isReadingInstructions, hasPrimed,
                           synth, crashed, nOps, isContinuousListening,
                           recognizing, pendingEnd,
                           oldRecognizers>>
       ELSE FinishLoad(t, data,
                       IF Truthy(data.isFood) THEN TRUE ELSE isEcoApplied)

\* getSustainableSuggestion resolves with `sug` (null on failure)
SuggestReturn(t, sug) ==
    /\ ~crashed
    /\ tasks[t].kind = "load"
    /\ tasks[t].stage = "suggest"
    /\ FinishLoad(t,
                  IF Truthy(sug)
                  THEN [tasks[t].data EXCEPT !.sustainabilitySuggestion = sug]
                  ELSE tasks[t].data,
                  FALSE)

\* extractInstructionsFromUrl rejects ("Fast extraction failed.")
ExtractFail(t) ==
    /\ ~crashed
    /\ tasks[t].kind = "load"
    /\ tasks[t].stage = "extract"
    /\ error' = "Error loading URL."
    /\ isLoading' = FALSE
    /\ tasks' = [tasks EXCEPT ![t] = Idle]
    /\ crashed' = RenderThrows(instructionSet, FALSE)
    /\ lastEvent' = Ev("loadFail", FALSE, FALSE)
    /\ UNCHANGED <<instructionSet, isAnswering, isModifying, isEcoApplied,
                   chatHistory, isMuted, completedSteps,
                   isReadingInstructions, hasPrimed, synth, nOps>>
    /\ UNCHANGED <<isContinuousListening, pendingEnd>>
    /\ recognizing' = RecognizerAfter
    /\ oldRecognizers' = OldRecognizersAfter(oldRecognizers)

\* ------------------------------------------------------------- transform
\* modifyInstructions (the service): the parsed response with isFood
\* overwritten and sources / sustainabilitySuggestion carried over from
\* the document that was sent, when that document has them.
MergeResponse(instructions, parsed) ==
    [parsed EXCEPT
       !.isFood = instructions.isFood,
       !.sources = IF Truthy(instructions.sources)
                   THEN instructions.sources ELSE parsed.sources,
       !.sustainabilitySuggestion =
           IF Truthy(instructions.sustainabilitySuggestion)
           THEN instructions.sustainabilitySuggestion
           ELSE parsed.sustainabilitySuggestion]

\* lines 107-113 of handleModifyInstructions
KeepFlags(prior, updated, isEcoSwitch) ==
    [updated EXCEPT
       !.hasAnimalProducts =
           IF isEcoSwitch THEN "false"
           ELSE IF updated.hasAnimalProducts # Undef
                THEN updated.hasAnimalProducts
                ELSE prior.hasAnimalProducts]

\* setCompletedSteps(new Array(updated.steps.length).fill(false)) of the
\* transformation
CompletedAfterModify_Keep(updated) ==
    [i \in 1..Len(updated.steps.items) |->
        i <= Len(completedSteps) /\ completedSteps[i]]

CompletedAfterModify(updated) == AllFalse(Len(updated.steps.items))

\* if (isEcoSwitch) setIsEcoApplied(true): the value of isEcoApplied after
\* the continuation, `cur` being the value before it
EcoAfterModify_Always(isEcoSwitch, cur) == TRUE

EcoAfterModify(isEcoSwitch, cur) == IF isEcoSwitch THEN TRUE ELSE cur

\* the eco button's disabled attribute
EcoDisabled_OnlyBusy == isModifying

EcoDisabled == isModifying \/ isEcoApplied

\* the quick-action buttons' disabled attribute
ActionsDisabled == isLoading \/ isAnswering \/ isModifying

\* handleModifyInstructions up to its await, called from a click with the
\* current render's values; the click then bubbles to the root's primeSpeech,
\* created in the same render.
ModifyStart(t, prompt, isEcoSwitch, chatMsg) ==
    /\ instructionSet # NullDoc
    /\ FreeSlot(t)
    /\ hasPrimed' = TRUE
    /\ isModifying' = TRUE
    /\ synth' = Primed(<<>>, hasPrimed)
    /\ pendingEnd' = PendingAfterCancel(pendingEnd, synth)
    /\ isReadingInstructions' = FALSE
    /\ tasks' = [tasks EXCEPT ![t] =
                   [kind |-> "modify", doc |-> instructionSet,
                    prompt |-> prompt, isEco |-> isEcoSwitch,
                    chatMsg |-> chatMsg, via |-> "button"]]
    /\ crashed' = RenderThrows(instructionSet, isLoading)
    /\ nOps' = nOps + 1
    /\ lastEvent' = Ev("modifyStart", isEcoSwitch, FALSE)
    /\ UNCHANGED <<instructionSet, isLoading, isAnswering, isEcoApplied,
                   error, chatHistory, isMuted, completedSteps>>
    /\ UNCHANGED isContinuousListening
    /\ recognizing' = RecognizerAfter
    /\ oldRecognizers' = OldRecognizersAfter(oldRecognizers)

\* a click on the eco button of InstructionDisplay; a disabled button
\* dispatches nothing
EcoSwitch(t) ==
    /\ CanAct
    /\ DisplayVisible
    /\ Truthy(instructionSet.isFood)
    /\ IF EcoDisabled
       THEN /\ nOps' = nOps + 1
            /\ lastEvent' = Ev("ecoClickDisabled", TRUE, FALSE)
            /\ UNCHANGED <<instructionSet, isLoading, isAnswering,
                           isModifying, isEcoApplied, error, chatHistory,
                           isMuted, completedSteps, isReadingInstructions,
                           hasPrimed, synth, tasks, crashed,
                           isContinuousListening, recognizing, pendingEnd,
                           oldRecognizers>>
       ELSE ModifyStart(t, "ecoPrompt", TRUE, "ecoDone")

\* a click on one of the quick-action buttons: onModify(prompt)
QuickAction(t) ==
    /\ CanAct
    /\ DisplayVisible
    /\ ~ActionsDisabled
    /\ ModifyStart(t, "quick", FALSE, "updated")

\* setChatHistory(prev => [...prev, { role: Role.ASSISTANT, content:
\* chatMsg }]) of the transformation
ChatAfterModify_Clears(prev, chatMsg) == <<Msg("assistant", chatMsg)>>

ChatAfterModify(prev, chatMsg) == Append(prev, Msg("assistant", chatMsg))

\* modifyInstructions resolves, having parsed `parsed` from the response
ModifyReturn(t, parsed) ==
    /\ ~crashed
    /\ tasks[t].kind = "modify"
    /\ LET prior == tasks[t].doc
           eco == tasks[t].isEco
           updated == KeepFlags(prior, MergeResponse(prior, parsed), eco)
       IN /\ isEcoApplied' = EcoAfterModify(eco, isEcoApplied)
          /\ instructionSet' = updated
          /\ isModifying' = FALSE
          /\ tasks' = [tasks EXCEPT ![t] = Idle]
          /\ crashed' = RenderThrows(updated, isLoading)
          /\ IF updated.steps.isArray
             THEN /\ completedSteps' = CompletedAfterModify(updated)
                  /\ chatHistory' = ChatAfterModify(chatHistory, tasks[t].chatMsg)
                  /\ synth' = Speak(synth, isMuted, tasks[t].chatMsg)
                  /\ pendingEnd' =
                       PendingAfterSpeak(pendingEnd, synth, isMuted)
                  /\ error' = error
                  /\ lastEvent' = Ev("modifyOk", eco, AnyDone(completedSteps))
             ELSE \* updated.steps.length throws after setInstructionSet
                  /\ error' = "Update failed."
                  /\ lastEvent' = Ev("modifyThrow", eco, AnyDone(completedSteps))
                  /\ UNCHANGED <<completedSteps, chatHistory, synth,
                                 pendingEnd>>
    /\ UNCHANGED <<isLoading, isAnswering, isMuted, isReadingInstructions,
                   hasPrimed, nOps>>
    /\ UNCHANGED isContinuousListening
    /\ recognizing' = RecognizerAfter
    /\ oldRecognizers' = OldRecognizersAfter(oldRecognizers)

\* (a failure path that clears the document as a failed load would)
ModifyFail_Clears(t) ==
    /\ ~crashed
    /\ tasks[t].kind = "modify"
    /\ error' = "Update failed."
    /\ isModifying' = FALSE
    /\ instructionSet' = NullDoc
    /\ completedSteps' = <<>>
    /\ tasks' = [tasks EXCEPT ![t] = Idle]
    /\ lastEvent' = Ev("modifyFail", tasks[t].isEco, FALSE)
    /\ UNCHANGED <<isLoading, isAnswering, isEcoApplied, chatHistory,
                   isMuted, isReadingInstructions, hasPrimed, synth,
                   crashed, nOps>>
    /\ UNCHANGED <<isContinuousListening, pendingEnd>>
    /\ recognizing' = RecognizerAfter
    /\ oldRecognizers' = OldRecognizersAfter(oldRecognizers)

\* (a failure path without the finally that clears isModifying)
ModifyFail_KeepsBusy(t) ==
    /\ ~crashed
    /\ tasks[t].kind = "modify"
    /\ error' = "Update failed."
    /\ tasks' = [tasks EXCEPT ![t] = Idle]
    /\ lastEvent' = Ev("modifyFail", tasks[t].isEco, FALSE)
    /\ UNCHANGED <<instructionSet, isLoading, isAnswering, isModifying,
                   isEcoApplied, chatHistory, isMuted, completedSteps,
                   isReadingInstructions, hasPrimed, synth, crashed, nOps>>
    /\ UNCHANGED <<isContinuousListening, pendingEnd>>
    /\ recognizing' = RecognizerAfter
    /\ oldRecognizers' = OldRecognizersAfter(oldRecognizers)

\* modifyInstructions rejects ("Update failed."): the call failed or its
\* response was not a JSON object
ModifyFail(t) ==
    /\ ~crashed
    /\ tasks[t].kind = "modify"
    /\ error' = "Update failed."
    /\ isModifying' = FALSE
    /\ tasks' = [tasks EXCEPT ![t] = Idle]
    /\ lastEvent' = Ev("modifyFail", tasks[t].isEco, FALSE)
    /\ UNCHANGED <<instructionSet, isLoading, isAnswering, isEcoApplied,
                   chatHistory, isMuted, completedSteps,
                   isReadingInstructions, hasPrimed, synth, crashed, nOps>>
    /\ UNCHANGED <<isContinuousListening, pendingEnd>>
    /\ recognizing' = RecognizerAfter
    /\ oldRecognizers' = OldRecognizersAfter(oldRecognizers)

\* ------------------------------------------------------------- steps
\* const next = [...completedSteps]; next[i] = !next[i] (i is 1-based here).
\* Writing past the end of a JavaScript array lengthens it; the holes left
\* in between read as undefined and are kept as FALSE.
Toggled(cs, i) ==
    IF i <= Len(cs)
    THEN [cs EXCEPT ![i] = ~cs[i]]
    ELSE [j \in 1..i |-> IF j <= Len(cs) THEN cs[j] ELSE j = i]

\* onToggleStep(i) and the click that carries it (the root's primeSpeech)
OnToggleStep(i, ev) ==
    /\ completedSteps' = Toggled(completedSteps, i)
    /\ synth' = Primed(synth, hasPrimed)
    /\ hasPrimed' = TRUE
    /\ nOps' = nOps + 1
    /\ lastEvent' = ev
    /\ UNCHANGED <<instructionSet, isLoading, isAnswering, isModifying,
                   isEcoApplied, error, chatHistory, isMuted,
                   isReadingInstructions, tasks, crashed>>
    /\ UNCHANGED <<isContinuousListening, pendingEnd>>
    /\ recognizing' = RecognizerAfter
    /\ oldRecognizers' = OldRecognizersAfter(oldRecognizers)

\* onToggleStep(i) from the checkbox rendered for step i
ToggleStep(i) ==
    /\ CanAct
    /\ DisplayVisible
    /\ i \in 1..Len(instructionSet.steps.items)
    /\ OnToggleStep(i, Ev("toggle", FALSE, FALSE))

\* ------------------------------------------------------------- chat
\* setChatHistory(prev => [...prev, { role: Role.USER, content: message }]),
\* the last statement of handleSendMessage before its first await
ChatAfterSend_Deferred(prev, message) == prev

ChatAfterSend(prev, message) == Append(prev, Msg("user", message))

\* handleSendMessage past its guard and up to its await, for a caller whose
\* render had hasPrimed = `primed`: primeSpeech's silent utterance, if any,
\* is removed by the cancel() that follows it.
HandleSendMessage(t, message, primed, ev) ==
    /\ FreeSlot(t)
    /\ hasPrimed' = TRUE
    /\ isAnswering' = TRUE
    /\ synth' = <<>>
    /\ pendingEnd' = PendingAfterCancel(pendingEnd, synth)
    /\ isReadingInstructions' = FALSE
    /\ chatHistory' = ChatAfterSend(chatHistory, message)
    /\ tasks' = [tasks EXCEPT ![t] =
                   [kind |-> "send", stage |-> "classify",
                    doc |-> instructionSet, chat |-> chatHistory,
                    completed |-> completedSteps, message |-> message,
                    primed |-> primed]]
    /\ nOps' = nOps + 1
    /\ lastEvent' = ev
    /\ UNCHANGED <<instructionSet, isLoading, isModifying, isEcoApplied,
                   error, isMuted, completedSteps, crashed,
                   isContinuousListening>>
    /\ recognizing' = RecognizerAfter
    /\ oldRecognizers' = OldRecognizersAfter(oldRecognizers)

\* the chat form's submit: handleSubmit -> onSendMessage(message) ->
\* handleSendMessage.  The form's isAnswering prop is isAnswering ||
\* isModifying; the click that submits has already run the root's
\* primeSpeech and re-rendered.
SendStart(t, message) ==
    /\ CanAct
    /\ ChatVisible
    /\ ~(isAnswering \/ isModifying)
    /\ instructionSet # NullDoc
    /\ HandleSendMessage(t, message, TRUE, Ev("sendStart", FALSE, FALSE))

\* ------------------------------------------------------------- recognizer
\* A transcript is a sequence of characters, blank or holding one word; a
\* result event carries the results from event.resultIndex on, each with
\* its isFinal mark.  (interimResults is false, but what an engine puts
\* into an event is the engine's choice.)
HasWord(tr) == \E i \in 1..Len(tr) : tr[i] # " "

\* the result events an engine sends: a final result with a word, a final
\* blank result, an interim result with a word, and an interim result
\* followed by a final one
ResultEvents ==
    {<<[isFinal |-> TRUE, transcript |-> <<" ", "w">>]>>,
     <<[isFinal |-> TRUE, transcript |-> <<" ">>]>>,
     <<[isFinal |-> FALSE, transcript |-> <<" ", "w">>]>>,
     <<[isFinal |-> FALSE, transcript |-> <<" ", "w">>],
       [isFinal |-> TRUE, transcript |-> <<" ", "w">>]>>}

\* the loop of onresult: the transcripts of the final results, concatenated
RECURSIVE FinalTranscript_All(_)
FinalTranscript_All(results) ==
    IF results = <<>> THEN <<>>
    ELSE Head(results).transcript \o FinalTranscript_All(Tail(results))

RECURSIVE FinalTranscript(_)
FinalTranscript(results) ==
    IF results = <<>> THEN <<>>
    ELSE (IF Head(results).isFinal THEN Head(results).transcript ELSE <<>>)
         \o FinalTranscript(Tail(results))

\* String.prototype.trim
RECURSIVE Trim(_)
Trim(tr) ==
    IF tr = <<>> THEN <<>>
    ELSE IF Head(tr) = " " THEN Trim(Tail(tr))
    ELSE IF tr[Len(tr)] = " " THEN Trim(SubSeq(tr, 1, Len(tr) - 1))
    ELSE tr

\* the message text of a trimmed, non-blank transcript
MessageText(tr) == "u1"

\* what a result event leaves in the history variable
VoiceEv(op, results) ==
    [op |-> op, eco |-> FALSE, dirty |-> FALSE, results |-> results]

\* recognition.onresult: if (finalTranscript.trim())
\* onSendMessage(finalTranscript.trim()), the handleSendMessage of the
\* render that created the recognizer.  Its guard returns without a trace
\* when a classification or an answer is outstanding.
VoiceResult(t, results) ==
    /\ CanAct
    /\ recognizing
    /\ LET final == Trim(FinalTranscript(results))
       IN IF final = <<>> \/ instructionSet = NullDoc \/ isAnswering
          THEN /\ t = 1
               /\ nOps' = nOps + 1
               /\ lastEvent' =
                    VoiceEv(IF final = <<>> THEN "voiceIgnored"
                            ELSE "voiceDropped", results)
               /\ UNCHANGED <<instructionSet, isLoading, isAnswering,
                              isModifying, isEcoApplied, error, chatHistory,
                              isMuted, completedSteps, isReadingInstructions,
                              hasPrimed, synth, tasks, crashed,
                              isContinuousListening, recognizing, pendingEnd,
                              oldRecognizers>>
          ELSE HandleSendMessage(t, MessageText(final), hasPrimed,
                                 VoiceEv("voiceSend", results))

\* the errors a recognizer reports
ErrorKinds == {"no-speech", "aborted", "network", "not-allowed"}

\* recognition.onerror, run by a recognizer created in a render whose
\* isContinuousListening was `closure`: only not-allowed does anything,
\* onToggleListening() = setIsContinuousListening(!isContinuousListening)
ListeningAfterError_Toggles(kind, closure, cur) ==
    IF kind = "not-allowed" THEN ~cur ELSE cur

ListeningAfterError(kind, closure, cur) ==
    IF kind = "not-allowed" THEN ~closure ELSE cur

\* what an error event leaves in the history variable: its kind, whether
\* the recognizer had already been replaced, and the flag when it arrived
ErrorEv(kind, stale) ==
    [op |-> "recognizerError", eco |-> FALSE, dirty |-> FALSE,
     kind |-> kind, stale |-> stale, was |-> isContinuousListening]

\* the running recognizer reports an error
RecognizerError(kind) ==
    /\ CanAct
    /\ recognizing
    /\ isContinuousListening' =
         ListeningAfterError(kind, isContinuousListening, isContinuousListening)
    /\ nOps' = nOps + 1
    /\ lastEvent' = ErrorEv(kind, FALSE)
    /\ UNCHANGED <<instructionSet, isLoading, isAnswering, isModifying,
                   isEcoApplied, error, chatHistory, isMuted, completedSteps,
                   isReadingInstructions, hasPrimed, synth, tasks, crashed,
                   pendingEnd>>
    /\ recognizing' = RecognizerAfter
    /\ oldRecognizers' = OldRecognizersAfter(oldRecognizers)

\* a recognizer that has been replaced reports an error: a permission prompt
\* that was still open when it was replaced ends in not-allowed (the
\* aborted that abort() makes it report is only logged)
StaleRecognizerError(kind, closure) ==
    /\ CanAct
    /\ closure \in oldRecognizers
    /\ isContinuousListening' =
         ListeningAfterError(kind, closure, isContinuousListening)
    /\ nOps' = nOps + 1
    /\ lastEvent' = ErrorEv(kind, TRUE)
    /\ UNCHANGED <<instructionSet, isLoading, isAnswering, isModifying,
                   isEcoApplied, error, chatHistory, isMuted, completedSteps,
                   isReadingInstructions, hasPrimed, synth, tasks, crashed,
                   pendingEnd>>
    /\ recognizing' = RecognizerAfter
    /\ oldRecognizers' = OldRecognizersAfter(oldRecognizers \ {closure})

\* recognition.onend of the running recognizer (the engine stopped by
\* itself, or after an error): start() again if isContinuousListeningRef
\* .current
RecognizerEnd ==
    /\ CanAct
    /\ recognizing
    /\ recognizing' = isContinuousListening
    /\ nOps' = nOps + 1
    /\ lastEvent' = Ev("recognizerEnd", FALSE, FALSE)
    /\ UNCHANGED <<instructionSet, isLoading, isAnswering, isModifying,
                   isEcoApplied, error, chatHistory, isMuted, completedSteps,
                   isReadingInstructions, hasPrimed, synth, tasks, crashed,
                   isContinuousListening, pendingEnd, oldRecognizers>>

\* ------------------------------------------------------------- routing
\* what the classification call can come back with: the word FALSE in
\* either case, a summary, or a failure of the call
ClassifierOutcomes == {"FALSE", "false", "sum", "fail"}

ToUpperCase(s) == IF s = "false" THEN "FALSE" ELSE s

\* detectModificationIntent: null for FALSE and for a failed call, the
\* trimmed text otherwise
DetectModificationIntent_FailIsSummary(o) ==
    IF o = "fail" THEN "sum"
    ELSE IF ToUpperCase(o) = "FALSE" THEN Undef ELSE o

DetectModificationIntent(o) ==
    IF o = "fail" THEN Undef
    ELSE IF ToUpperCase(o) = "FALSE" THEN Undef ELSE o

\* the first argument of handleModifyInstructions(message, false,
\* chatConfirmation) in the transform branch of handleSendMessage
RoutedPrompt_Summary(message, modSummary) == modSummary

RoutedPrompt(message, modSummary) == message

\* `I have regenerated the recipe to make it ${modSummary.toLowerCase()}.
\* If you want to switch back, let me know.`: "regenerated" is that text
\* for the summary "sum"
ChatConfirmation(modSummary) ==
    IF modSummary = "sum" THEN "regenerated" ELSE "regeneratedOther"

\* detectModificationIntent settles (it never rejects) on outcome `o`
ClassifyReturn(t, o) ==
    /\ ~crashed
    /\ tasks[t].kind = "send"
    /\ tasks[t].stage = "classify"
    /\ IF Truthy(DetectModificationIntent(o))
       THEN \* setIsAnswering(false); await handleModifyInstructions(message,
            \* false, chatConfirmation), the handler of the same render
            /\ isAnswering' = FALSE
            /\ hasPrimed' = (hasPrimed \/ ~tasks[t].primed)
            /\ isModifying' = TRUE
            /\ synth' = <<>>
            /\ pendingEnd' = PendingAfterCancel(pendingEnd, synth)
            /\ isReadingInstructions' = FALSE
            /\ tasks' = [tasks EXCEPT ![t] =
                           [kind |-> "modify", doc |-> tasks[t].doc,
                            prompt |-> RoutedPrompt(tasks[t].message,
                                                    DetectModificationIntent(o)),
                            isEco |-> FALSE,
                            chatMsg |->
                              ChatConfirmation(DetectModificationIntent(o)),
                            via |-> "router",
                            failed |-> (o = "fail")]]
            /\ lastEvent' = Ev("modifyStart", FALSE, FALSE)
       ELSE \* getChatResponse(instructionSet, chatHistory, message,
            \* completedSteps) with the closed-over values
            /\ tasks' = [tasks EXCEPT ![t] =
                           [kind |-> "send", stage |-> "answer",
                            doc |-> tasks[t].doc, chat |-> tasks[t].chat,
                            completed |-> tasks[t].completed,
                            message |-> tasks[t].message,
                            primed |-> tasks[t].primed,
                            failed |-> (o = "fail")]]
            /\ lastEvent' = Ev("answerStart", FALSE, FALSE)
            /\ UNCHANGED <<isAnswering, hasPrimed, isModifying, synth,
                           isReadingInstructions, pendingEnd>>
    /\ UNCHANGED <<instructionSet, isLoading, isEcoApplied, error,
                   chatHistory, isMuted, completedSteps, crashed, nOps,
                   isContinuousListening>>
    /\ recognizing' = RecognizerAfter
    /\ oldRecognizers' = OldRecognizersAfter(oldRecognizers)

\* how the generateContent call of getChatResponse settles
AnswerOutcomes == {"answer", "fail"}

\* a promise that rejects
Rejected == "rejected"

\* getChatResponse: the response text, or its own apology when the call
\* fails (the catch returns, it does not rethrow)
GetChatResponse_Rethrows(o) == IF o = "fail" THEN Rejected ELSE o

GetChatResponse(o) == IF o = "fail" THEN "sorry" ELSE o

\* what getChatResponse can resolve with
Answers == {GetChatResponse(o) : o \in AnswerOutcomes}

\* what the continuation of the answer call leaves alone: it calls
\* setChatHistory, speak and setIsAnswering and nothing else
AnswerFrame_ResetsSteps ==
    /\ completedSteps' = AllFalse(Len(completedSteps))
    /\ UNCHANGED <<instructionSet, isLoading, isModifying, isEcoApplied,
                   error, isMuted, isReadingInstructions, hasPrimed,
                   crashed, nOps>>

AnswerFrame ==
    UNCHANGED <<instructionSet, isLoading, isModifying, isEcoApplied,
                error, isMuted, completedSteps, isReadingInstructions,
                hasPrimed, crashed, nOps>>

\* the continuation of `await getChatResponse(...)` in handleSendMessage,
\* the call having settled on outcome `o`: the else branch, or the catch
\* when the promise rejects
AnswerReturn(t, o) ==
    /\ ~crashed
    /\ tasks[t].kind = "send"
    /\ tasks[t].stage = "answer"
    /\ LET aiResponse == GetChatResponse(o)
       IN IF aiResponse # Rejected
          THEN /\ chatHistory' = Append(chatHistory,
                                       Msg("assistant", aiResponse))
               /\ synth' = Speak(synth, isMuted, aiResponse)
               /\ pendingEnd' = PendingAfterSpeak(pendingEnd, synth, isMuted)
               /\ lastEvent' = Ev("answered", FALSE, FALSE)
          ELSE /\ lastEvent' = Ev("answerThrow", FALSE, FALSE)
               /\ UNCHANGED <<chatHistory, synth, pendingEnd>>
    /\ isAnswering' = FALSE
    /\ tasks' = [tasks EXCEPT ![t] = Idle]
    /\ AnswerFrame
    /\ UNCHANGED isContinuousListening
    /\ recognizing' = RecognizerAfter
    /\ oldRecognizers' = OldRecognizersAfter(oldRecognizers)

\* ------------------------------------------------------------- speech events
\* the utterance at the head of the queue ends
UtteranceEnd ==
    /\ ~crashed
    /\ synth # <<>>
    /\ synth' = Tail(synth)
    /\ isReadingInstructions' =
         (IF Head(synth).cb THEN FALSE ELSE isReadingInstructions)
    /\ lastEvent' = Ev("utteranceEnd", FALSE, FALSE)
    /\ UNCHANGED <<instructionSet, isLoading, isAnswering, isModifying,
                   isEcoApplied, error, chatHistory, isMuted, completedSteps,
                   hasPrimed, tasks, crashed, nOps>>
    /\ UNCHANGED <<isContinuousListening, pendingEnd>>
    /\ recognizing' = RecognizerAfter
    /\ oldRecognizers' = OldRecognizersAfter(oldRecognizers)

\* the header's mute button: setIsMuted(!isMuted)
ToggleMute ==
    /\ CanAct
    /\ isMuted' = ~isMuted
    /\ synth' = Primed(synth, hasPrimed)
    /\ hasPrimed' = TRUE
    /\ nOps' = nOps + 1
    /\ lastEvent' = Ev("toggleMute", FALSE, FALSE)
    /\ UNCHANGED <<instructionSet, isLoading, isAnswering, isModifying,
                   isEcoApplied, error, chatHistory, completedSteps,
                   isReadingInstructions, tasks, crashed>>
    /\ UNCHANGED <<isContinuousListening, pendingEnd>>
    /\ recognizing' = RecognizerAfter
    /\ oldRecognizers' = OldRecognizersAfter(oldRecognizers)

\* an utterance that cancel() removed gets its end or error event after
\* all: its callback, () => setIsReadingInstructions(false), runs
CancelledEnd ==
    /\ ~crashed
    /\ pendingEnd > 0
    /\ pendingEnd' = pendingEnd - 1
    /\ isReadingInstructions' = FALSE
    /\ lastEvent' = Ev("cancelledEnd", FALSE, FALSE)
    /\ UNCHANGED <<instructionSet, isLoading, isAnswering, isModifying,
                   isEcoApplied, error, chatHistory, isMuted, completedSteps,
                   hasPrimed, synth, tasks, crashed, nOps,
                   isContinuousListening>>
    /\ recognizing' = RecognizerAfter
    /\ oldRecognizers' = OldRecognizersAfter(oldRecognizers)

\* the browser delivers no event to an utterance that cancel() removed
CancelledSilent ==
    /\ ~crashed
    /\ pendingEnd > 0
    /\ pendingEnd' = pendingEnd - 1
    /\ lastEvent' = Ev("cancelledSilent", FALSE, FALSE)
    /\ UNCHANGED <<instructionSet, isLoading, isAnswering, isModifying,
                   isEcoApplied, error, chatHistory, isMuted, completedSteps,
                   isReadingInstructions, hasPrimed, synth, tasks, crashed,
                   nOps, isContinuousListening, recognizing,
                   oldRecognizers>>

\* ------------------------------------------------------------- read-all
\* instructionSet.steps.filter((_, i) => !completedSteps[i])
RemainingSteps ==
    {i \in 1..Len(instructionSet.steps.items) :
        ~(i <= Len(completedSteps) /\ completedSteps[i])}

\* InstructionDisplay: completedSteps.length > 0 && every(Boolean)
AllStepsCompleted ==
    /\ Len(completedSteps) > 0
    /\ \A i \in 1..Len(completedSteps) : completedSteps[i]

\* speak(text, onEnd) with a callback: the queue it leaves
SpeakCb(q, muted, text) == IF muted THEN q ELSE <<Utt(text, TRUE)>>

\* speak(text, onEnd): onEnd?.() runs inside the call when muted
OnEndNow_Never(muted) == FALSE

OnEndNow(muted) == muted

\* a click on Read All: handleReadInstructions, then the root's primeSpeech
ReadAll ==
    /\ CanAct
    /\ DisplayVisible
    /\ ~isReadingInstructions
    /\ ~(isMuted \/ AllStepsCompleted)
    /\ IF RemainingSteps = {}
       THEN /\ synth' = Primed(Speak(synth, isMuted, "noMoreSteps"), hasPrimed)
            /\ pendingEnd' = PendingAfterSpeak(pendingEnd, synth, isMuted)
            /\ lastEvent' = Ev("readNone", FALSE, FALSE)
            /\ UNCHANGED isReadingInstructions
       ELSE /\ synth' = Primed(SpeakCb(synth, isMuted, "steps"), hasPrimed)
            /\ pendingEnd' = PendingAfterSpeak(pendingEnd, synth, isMuted)
            /\ isReadingInstructions' = ~OnEndNow(isMuted)
            /\ lastEvent' = Ev("readAll", FALSE, FALSE)
    /\ hasPrimed' = TRUE
    /\ nOps' = nOps + 1
    /\ UNCHANGED <<instructionSet, isLoading, isAnswering, isModifying,
                   isEcoApplied, error, chatHistory, isMuted, completedSteps,
                   tasks, crashed, isContinuousListening>>
    /\ recognizing' = RecognizerAfter
    /\ oldRecognizers' = OldRecognizersAfter(oldRecognizers)

\* a click on Stop, shown while isReadingInstructions: onStopReading
StopReading ==
    /\ CanAct
    /\ DisplayVisible
    /\ isReadingInstructions
    /\ synth' = Primed(<<>>, hasPrimed)
    /\ pendingEnd' = PendingAfterCancel(pendingEnd, synth)
    /\ isReadingInstructions' = FALSE
    /\ hasPrimed' = TRUE
    /\ nOps' = nOps + 1
    /\ lastEvent' = Ev("stopReading", FALSE, FALSE)
    /\ UNCHANGED <<instructionSet, isLoading, isAnswering, isModifying,
                   isEcoApplied, error, chatHistory, isMuted, completedSteps,
                   tasks, crashed, isContinuousListening>>
    /\ recognizing' = RecognizerAfter
    /\ oldRecognizers' = OldRecognizersAfter(oldRecognizers)

\* a click on the read-aloud button of assistant message i: onSpeak(content)
SpeakMessage(i) ==
    /\ CanAct
    /\ ChatVisible
    /\ ~isMuted
    /\ i \in 1..Len(chatHistory)
    /\ chatHistory[i].role = "assistant"
    /\ synth' = Primed(Speak(synth, isMuted, chatHistory[i].content), hasPrimed)
    /\ pendingEnd' = PendingAfterSpeak(pendingEnd, synth, isMuted)
    /\ hasPrimed' = TRUE
    /\ nOps' = nOps + 1
    /\ lastEvent' = Ev("speakMessage", FALSE, FALSE)
    /\ UNCHANGED <<instructionSet, isLoading, isAnswering, isModifying,
                   isEcoApplied, error, chatHistory, isMuted, completedSteps,
                   isReadingInstructions, tasks, crashed,
                   isContinuousListening>>
    /\ recognizing' = RecognizerAfter
    /\ oldRecognizers' = OldRecognizersAfter(oldRecognizers)

\* ------------------------------------------------------------- listening
\* the header's microphone button: setIsContinuousListening(prev => !prev)
ToggleListening ==
    /\ CanAct
    /\ isContinuousListening' = ~isContinuousListening
    /\ synth' = Primed(synth, hasPrimed)
    /\ hasPrimed' = TRUE
    /\ nOps' = nOps + 1
    /\ lastEvent' = Ev("toggleListening", FALSE, FALSE)
    /\ UNCHANGED <<instructionSet, isLoading, isAnswering, isModifying,
                   isEcoApplied, error, chatHistory, isMuted, completedSteps,
                   isReadingInstructions, tasks, crashed, pendingEnd>>
    /\ recognizing' = RecognizerAfter
    /\ oldRecognizers' = OldRecognizersAfter(oldRecognizers)

\* ------------------------------------------------------------- system
Utterances == {"u1"}

Next ==
    \/ \E t \in 1..MaxTasks : FetchStart(t)
    \/ \E t \in 1..MaxTasks, data \in ExtractResponses : ExtractReturn(t, data)
    \/ \E t \in 1..MaxTasks, sug \in Suggestions : SuggestReturn(t, sug)
    \/ \E t \in 1..MaxTasks : ExtractFail(t)
    \/ \E t \in 1..MaxTasks : EcoSwitch(t)
    \/ \E t \in 1..MaxTasks : QuickAction(t)
    \/ \E t \in 1..MaxTasks, parsed \in ModifyResponses : ModifyReturn(t, parsed)
    \/ \E t \in 1..MaxTasks : ModifyFail(t)
    \/ \E i \in 1..(MaxSteps + 1) : ToggleStep(i)
    \/ \E t \in 1..MaxTasks, m \in Utterances : SendStart(t, m)
    \/ \E t \in 1..MaxTasks, results \in ResultEvents : VoiceResult(t, results)
    \/ \E kind \in ErrorKinds : RecognizerError(kind)
    \/ \E closure \in BOOLEAN : StaleRecognizerError("not-allowed", closure)
    \/ RecognizerEnd
    \/ \E t \in 1..MaxTasks, o \in ClassifierOutcomes : ClassifyReturn(t, o)
    \/ \E t \in 1..MaxTasks, o \in AnswerOutcomes : AnswerReturn(t, o)
    \/ UtteranceEnd
    \/ CancelledEnd
    \/ CancelledSilent
    \/ ReadAll
    \/ StopReading
    \/ \E i \in 1..Len(chatHistory) : SpeakMessage(i)
    \/ ToggleListening
    \/ ToggleMute

Spec == Init /\ [][Next]_vars

\* ------------------------------------------------------------- returning calls
\* The capability call task t waits for settles, with a result or a
\* failure, and its continuation runs.
CallReturns(t) ==
    \/ \E data \in ExtractResponses : ExtractReturn(t, data)
    \/ \E sug \in Suggestions : SuggestReturn(t, sug)
    \/ ExtractFail(t)
    \/ \E parsed \in ModifyResponses : ModifyReturn(t, parsed)
    \/ ModifyFail(t)
    \/ \E o \in ClassifierOutcomes : ClassifyReturn(t, o)
    \/ \E o \in AnswerOutcomes : AnswerReturn(t, o)

\* The application under the hypothesis that every capability call
\* eventually returns: the continuation of an outstanding call is a
\* microtask no other block disables, so weak fairness is enough.
LiveSpec ==
    Init /\ [][Next]_vars /\ \A t \in 1..MaxTasks : WF_vars(CallReturns(t))

\* ------------------------------------------------------------- speak alone
\* speak as a function of its arguments and of the state it reads
\* (isMutedRef.current and the synthesis queue), applied to every state of
\* that kind the App can be in, with or without a callback.  The callback
\* is the one the App passes, () => setIsReadingInstructions(false).
SpeakTexts == {"steps", "answer"}

SpeakQueues ==
    {<<>>, <<Utt("", FALSE)>>, <<Utt("welcome", FALSE)>>,
     <<Utt("steps", TRUE)>>}

SpeakInit ==
    /\ instructionSet = NullDoc
    /\ isLoading = FALSE
    /\ isAnswering = FALSE
    /\ isModifying = FALSE
    /\ isEcoApplied = FALSE
    /\ error = Undef
    /\ chatHistory = <<>>
    /\ isMuted \in BOOLEAN
    /\ completedSteps = <<>>
    /\ isReadingInstructions \in BOOLEAN
    /\ hasPrimed = TRUE
    /\ synth \in SpeakQueues
    /\ tasks = [t \in 1..MaxTasks |-> Idle]
    /\ crashed = FALSE
    /\ nOps = 0
    /\ lastEvent = Ev("init", FALSE, FALSE)
    /\ isContinuousListening = FALSE
    /\ recognizing = FALSE
    /\ pendingEnd = 0
    /\ oldRecognizers = {}

\* what a call of speak leaves in the history variable: whether it was
\* given a callback, and whether the callback ran inside the call
SpeakEv(withCb, completed) ==
    [op |-> "speak", eco |-> FALSE, dirty |-> FALSE,
     withCb |-> withCb, completed |-> completed]

\* speak(text, onEnd) / speak(text)
SpeakCall(text, withCb) ==
    /\ CanAct
    /\ synth' = IF withCb THEN SpeakCb(synth, isMuted, text)
                ELSE Speak(synth, isMuted, text)
    /\ pendingEnd' = PendingAfterSpeak(pendingEnd, synth, isMuted)
    /\ isReadingInstructions' =
         (IF withCb /\ OnEndNow(isMuted) THEN FALSE
          ELSE isReadingInstructions)
    /\ lastEvent' = SpeakEv(withCb, withCb /\ OnEndNow(isMuted))
    /\ nOps' = nOps + 1
    /\ UNCHANGED <<instructionSet, isLoading, isAnswering, isModifying,
                   isEcoApplied, error, chatHistory, isMuted, completedSteps,
                   hasPrimed, tasks, crashed, isContinuousListening>>
    /\ recognizing' = RecognizerAfter
    /\ oldRecognizers' = OldRecognizersAfter(oldRecognizers)

SpeakNext ==
    \/ \E text \in SpeakTexts, withCb \in BOOLEAN : SpeakCall(text, withCb)
    \/ UtteranceEnd
    \/ CancelledEnd
    \/ CancelledSilent
    \/ ToggleMute

SpeakSpec == SpeakInit /\ [][SpeakNext]_vars

\* ------------------------------------------------------------- onToggleStep
\* A second specification for the contract of onToggleStep alone: the
\* function applied, for any index, to every displayed document with its
\* completion flags.
RECURSIVE Flags(_)
Flags(n) ==
    IF n = 0 THEN {<<>>}
    ELSE {Append(cs, b) : cs \in Flags(n - 1), b \in BOOLEAN}

\* the documents a load installs and the display can render
DisplayedDocs ==
    {[d EXCEPT !.sustainabilitySuggestion = sug] :
       d \in {e \in ExtractResponses : e.steps.isArray}, sug \in Suggestions}

ToggleInit ==
    /\ instructionSet \in DisplayedDocs
    /\ isLoading = FALSE
    /\ isAnswering = FALSE
    /\ isModifying = FALSE
    /\ isEcoApplied \in BOOLEAN
    /\ error = Undef
    /\ chatHistory = <<Msg("assistant", "loaded")>>
    /\ isMuted = FALSE
    /\ completedSteps \in Flags(Len(instructionSet.steps.items))
    /\ isReadingInstructions = FALSE
    /\ hasPrimed = TRUE
    /\ synth = <<>>
    /\ tasks = [t \in 1..MaxTasks |-> Idle]
    /\ crashed = FALSE
    /\ nOps = 0
    /\ lastEvent = Ev("init", FALSE, FALSE)
    /\ isContinuousListening = FALSE
    /\ recognizing = FALSE
    /\ pendingEnd = 0
    /\ oldRecognizers = {}

\* what a call of onToggleStep leaves in the history variable: its index
ToggleEv(i) ==
    [op |-> "toggleCall", eco |-> FALSE, dirty |-> FALSE, index |-> i]

\* onToggleStep(i) for any number i
ToggleCall(i) ==
    /\ CanAct
    /\ DisplayVisible
    /\ OnToggleStep(i, ToggleEv(i))

ToggleNext == \E i \in 1..(MaxSteps + 1) : ToggleCall(i)

ToggleSpec == ToggleInit /\ [][ToggleNext]_vars

\* ------------------------------------------------------------- properties
\* Every block sets lastEvent to its own name, so lastEvent'.op names the
\* block a step runs.
\* the blocks that end a transformation whose call returned a document
ModifyReturned == lastEvent.op \in {"modifyOk", "modifyThrow"}

StepCount == Len(instructionSet.steps.items)

\* C1: after every successful transformation CompletionState is all-false
\* and exactly as long as the new step list; no flag set before the
\* transformation survives it.
C1_TransformResetsCompletion ==
    lastEvent.op = "modifyOk" => completedSteps = AllFalse(StepCount)

\* a transformation succeeded over a list that had a completed step, and
\* returned a single step (Scenario B)
C1_Witness ==
    /\ lastEvent.op = "modifyOk"
    /\ lastEvent.dirty
    /\ completedSteps = <<FALSE>>

\* C2: after every successful load CompletionState has one entry per step
\* of the loaded document and every entry is false, whatever came before.
C2_LoadResetsCompletion ==
    lastEvent.op = "loadOk" => completedSteps = AllFalse(StepCount)

\* a load succeeded over a state that had a completed step
C2_Witness ==
    /\ lastEvent.op = "loadOk"
    /\ lastEvent.dirty
    /\ Len(completedSteps) = MaxSteps

\* C3: whenever a document is handed to the Document Display,
\* CompletionState holds exactly one flag per step of that document.
C3_OneFlagPerStep ==
    DisplayVisible => Len(completedSteps) = StepCount

\* C4: a failed transformation call leaves the document, CompletionState
\* and isEcoApplied as they were, for eco-swap and other transformations.
C4_FailedCallChangesNothing ==
    [][lastEvent'.op = "modifyFail" =>
         UNCHANGED <<instructionSet, completedSteps, isEcoApplied>>]_vars

\* an eco-swap call has failed on a loaded document with a completed step
C4_Witness ==
    /\ lastEvent.op = "modifyFail"
    /\ lastEvent.eco
    /\ instructionSet # NullDoc
    /\ AnyDone(completedSteps)

\* C5: a malformed transformation response (no title, or materials or steps
\* not arrays) is never installed as the current document.
C5_MalformedNeverInstalled ==
    ModifyReturned => WellFormed(instructionSet)

\* C6: after a failed transformation attempt the last message of
\* ChatHistory is an assistant-role error message.
C6_FailureAppendsErrorMessage ==
    lastEvent.op = "modifyFail" =>
        /\ Len(chatHistory) > 0
        /\ chatHistory[Len(chatHistory)] = Msg("assistant", "updateError")

\* C7: sources attached to the current document survive every
\* transformation: the document after the transformation carries the
\* sources of the document before it.
C7_SourcesSurviveTransformations ==
    [][(ModifyReturned' /\ instructionSet # NullDoc
          /\ Truthy(instructionSet.sources))
         => instructionSet'.sources = instructionSet.sources]_vars

\* C8: after an accepted eco-swap the document has hasAnimalProducts false,
\* isEcoApplied is true and sustainabilitySuggestion is cleared.
C8_EcoSwapForcesFlags ==
    (lastEvent.op = "modifyOk" /\ lastEvent.eco) =>
        /\ instructionSet.hasAnimalProducts = "false"
        /\ isEcoApplied
        /\ instructionSet.sustainabilitySuggestion = Undef

\* a step in which the user invokes eco-swap
EcoInvoked ==
    /\ nOps' = nOps + 1
    /\ \/ lastEvent'.op = "ecoClickDisabled"
       \/ lastEvent'.op = "modifyStart" /\ lastEvent'.eco

\* C9: invoking eco-swap while isEcoApplied is true issues no transformation
\* call and changes no state of the application.
C9_EcoSwapInertOnceApplied ==
    [][(isEcoApplied /\ EcoInvoked) =>
         UNCHANGED <<instructionSet, isLoading, isAnswering, isModifying,
                     isEcoApplied, error, chatHistory, isMuted,
                     completedSteps, isReadingInstructions, synth, tasks>>]_vars

\* eco-swap has been invoked on a document whose eco-swap is applied
C9_Witness ==
    /\ lastEvent.op = "ecoClickDisabled"
    /\ isEcoApplied
    /\ ~isModifying

Transforming == {t \in 1..MaxTasks : tasks[t].kind = "modify"}

\* C11: at most one transformation is in flight at any time: no sequence
\* of typed messages, voice utterances, quick-action clicks and eco-swap
\* clicks reaches a state with two outstanding transformation calls.
C11_OneTransformationInFlight ==
    Cardinality(Transforming) <= 1

\* the requests the router has accepted and whose classification, answer
\* or transformation call has not settled
RoutedOutstanding ==
    {t \in 1..MaxTasks :
        \/ tasks[t].kind = "send"
        \/ tasks[t].kind = "modify" /\ tasks[t].via = "router"}

\* C12: while a classification, or the answer or transformation call it led
\* to, is outstanding, the router accepts no second utterance, typed or
\* spoken: at most one routed request is outstanding at any time.
C12_OneRoutedRequest ==
    Cardinality(RoutedOutstanding) <= 1

\* task t is an accepted utterance whose classification settles in this step
Classified(t) ==
    /\ tasks[t].kind = "send"
    /\ tasks[t].stage = "classify"
    /\ tasks'[t] # tasks[t]

\* the transform path runs for task t: its transformation call is issued
TransformPath(t) == tasks[t].kind = "modify" /\ tasks[t].via = "router"

\* the question path runs for task t: its answer call is issued
QuestionPath(t) == tasks[t].kind = "send" /\ tasks[t].stage = "answer"

\* C13: for every utterance the router accepts, exactly one of the
\* transform path and the question path executes when its classification
\* settles, never both and never neither; when the classification call
\* fails, the question path executes.
C13_ExactlyOnePath ==
    [][\A t \in 1..MaxTasks :
         Classified(t) =>
            /\ TransformPath(t)' # QuestionPath(t)'
            /\ tasks'[t].failed => QuestionPath(t)']_vars

\* the classification call of an accepted utterance has failed and the
\* answer call has been issued for it
C13_Witness ==
    /\ lastEvent.op = "answerStart"
    /\ \E t \in 1..MaxTasks : QuestionPath(t) /\ tasks[t].failed

\* a step in which the recognizer hands over a finalized, non-blank utterance
VoiceDelivered == lastEvent'.op \in {"voiceSend", "voiceDropped"}

\* C14: no user input is lost.  The code keeps no utterance for later, so
\* "eventually appended and routed" is decided in the step that receives
\* the utterance: every utterance the recognizer emits while a document is
\* loaded is appended to ChatHistory as a USER message and routed in that
\* step, also when another request is outstanding.
C14_NoUtteranceLost ==
    [][(VoiceDelivered /\ instructionSet # NullDoc) =>
         /\ chatHistory' = Append(chatHistory, Msg("user", "u1"))
         /\ Cardinality(RoutedOutstanding') =
              Cardinality(RoutedOutstanding) + 1]_vars

\* C15: when speak is called twice in succession with completion
\* callbacks, the first call's onComplete does not fire after the second
\* call's utterance has started: no callback of an utterance that was
\* removed from the queue runs while a later call's utterance with a
\* callback is in the queue.
C15_NoStaleCompletion ==
    lastEvent.op = "cancelledEnd" => CbCount(synth) = 0

\* the utterances of a queue that narrate something (the silent priming
\* utterance has the empty text)
Narrations(q) == {i \in 1..Len(q) : q[i].text # ""}

\* C16: every user-initiated action that changes document state or starts
\* new narration (load, transformation, sending a message, read-all)
\* cancels the in-flight narration first: after the block that starts a
\* load, a transformation or a message no narration is in the queue, and
\* after read-all only its own.
C16_ActionCancelsNarration ==
    /\ lastEvent.op \in {"fetchStart", "modifyStart", "sendStart", "voiceSend"}
         => Narrations(synth) = {}
    /\ lastEvent.op \in {"readAll", "readNone"}
         => Cardinality(Narrations(synth)) <= 1

\* C17: transitioning output to muted cancels any in-flight narration: in
\* every reachable state where output is muted, no narration utterance is
\* active or queued.
C17_MutedMeansSilent ==
    isMuted => Narrations(synth) = {}

\* C18: a narration started with a completion callback and then cancelled
\* does not leave its completion pending: once the browser has settled the
\* events of the utterances that were removed, isReadingInstructions is
\* true only while the read-all utterance is in the queue.
C18_CancelCompletes ==
    (isReadingInstructions /\ pendingEnd = 0) => CbCount(synth) > 0

\* the text handed to the speech capability by the block that ran last
SpokenText ==
    CASE lastEvent.op = "loadOk" -> "welcome"
      [] lastEvent.op \in {"modifyOk", "answered"} ->
            chatHistory[Len(chatHistory)].content
      [] lastEvent.op = "readAll" -> "steps"
      [] lastEvent.op = "readNone" -> "noMoreSteps"
      [] OTHER -> Undef

\* C19: at most one narration utterance is active or queued at any time,
\* and after a speak call that is not muted the queue holds exactly the
\* utterance of that call, whatever was in flight when it was made.
C19_OneNarration ==
    /\ Cardinality(Narrations(synth)) <= 1
    /\ (SpokenText # Undef /\ ~isMuted) =>
          /\ Narrations(synth) = {1}
          /\ synth[1].text = SpokenText
    /\ (lastEvent.op = "speakMessage" /\ ~isMuted) =>
          /\ Narrations(synth) = {1}
          /\ \E i \in 1..Len(chatHistory) :
                /\ chatHistory[i].role = "assistant"
                /\ chatHistory[i].content = synth[1].text

\* an answer has been spoken over a read-all narration that was started
\* while the answer call was outstanding: the read-all utterance is gone
\* and the answer is the only utterance in the queue
C19_Witness ==
    /\ lastEvent.op = "answered"
    /\ isReadingInstructions
    /\ pendingEnd = 1
    /\ synth = <<Utt("answer", FALSE)>>

\* C20: when output is muted, speak(text, onComplete) invokes onComplete
\* and produces no narration: the callback runs inside the call and the
\* synthesis queue is left as it was.
C20_MutedSpeakCompletes ==
    [][(lastEvent'.op = "speak" /\ lastEvent'.withCb /\ isMuted) =>
         /\ lastEvent'.completed
         /\ ~isReadingInstructions'
         /\ synth' = synth
         /\ pendingEnd' = pendingEnd]_vars

\* speak has been called with a callback while muted and while a read-all
\* was marked as running: the callback has run and cleared the mark
C20_Witness ==
    /\ lastEvent.op = "speak"
    /\ lastEvent.withCb
    /\ lastEvent.completed
    /\ isMuted
    /\ ~isReadingInstructions
    /\ synth = <<Utt("steps", TRUE)>>

\* C21: for every speak(text, onComplete) call onComplete fires exactly
\* once and never synchronously: the callback does not run inside the call,
\* and no utterance that carries a callback leaves the queue without its
\* callback running.
C21_CompletesOnceNeverSynchronously ==
    /\ (lastEvent.op = "speak" /\ lastEvent.withCb) => ~lastEvent.completed
    /\ lastEvent.op # "cancelledSilent"

\* the recognizer has reported that the microphone is denied
PermissionDenied ==
    lastEvent.op = "recognizerError" /\ lastEvent.kind = "not-allowed"

\* C22: after a fatal permission error from the recognizer the listening
\* flag reads false, whatever its value and whatever toggles were
\* interleaved when the error arrived; and while the flag is false no
\* recognizer is running, so no utterance is routed until listening is
\* enabled again.
C22_DeniedForcesOff ==
    /\ PermissionDenied => ~isContinuousListening
    /\ ~isContinuousListening => ~recognizing

\* the error came from a recognizer that had been replaced by a later
\* render, and arrived while the flag was true
C22_Witness ==
    /\ PermissionDenied
    /\ lastEvent.stale
    /\ lastEvent.was
    /\ ~isContinuousListening
    /\ ~recognizing

\* the recognition errors that are to be swallowed
TransientErrors == {"no-speech", "aborted"}

\* C23: a transient recognition error (no-speech, aborted) leaves listening
\* enabled and the recognizer running; after every other recognition error
\* the listening flag is false and no recognizer is running.
C23_OnlyTransientErrorsSwallowed ==
    (lastEvent.op = "recognizerError" /\ ~lastEvent.stale) =>
        IF lastEvent.kind \in TransientErrors
        THEN isContinuousListening /\ recognizing
        ELSE ~isContinuousListening /\ ~recognizing

\* C24: while listening is enabled, listening keeps running: when the
\* recognizer ends, or is torn down and recreated after a re-render, a
\* recognizer is started again, so in no state in which the chat is mounted
\* is the listening flag true with no recognizer running.
C24_ListeningKeepsRunning ==
    (isContinuousListening /\ ChatVisible /\ ~crashed) => recognizing

\* a result event holds a final result with a word in it
HasFinalText(results) ==
    \E i \in 1..Len(results) :
        results[i].isFinal /\ HasWord(results[i].transcript)

\* C25: only finalized transcripts are forwarded to the router: onresult
\* calls the router only for an event that holds a final result whose text
\* is not blank; an interim result or a blank final text causes no call.
C25_OnlyFinalizedForwarded ==
    lastEvent.op \in {"voiceSend", "voiceDropped"} =>
        HasFinalText(lastEvent.results)

\* an event with an interim result and a final one has been routed
C25_Witness ==
    /\ lastEvent.op = "voiceSend"
    /\ Len(lastEvent.results) = 2
    /\ ~lastEvent.results[1].isFinal
    /\ HasWord(lastEvent.results[1].transcript)
    /\ chatHistory[Len(chatHistory)] = Msg("user", "u1")

\* ------------------------------------------------------------- C26
\* the documents a load can install: an extraction, with the suggestion of
\* getSustainableSuggestion written into it when there is one
LoadedDocs ==
    ExtractResponses
    \cup {[d EXCEPT !.sustainabilitySuggestion = sug] :
            d \in ExtractResponses, sug \in Suggestions \ {Undef}}

LoadSucceeded == lastEvent.op = "loadOk"

LoadFailed == lastEvent.op \in {"loadFail", "loadThrow"}

\* C27: when a load attempt fails, the document is empty afterwards
\* (neither the previous document nor a malformed one is current), a
\* user-visible error is set, isLoading is false again, and the load has
\* no capability call outstanding.
C27_FailedLoadLeavesEmpty ==
    LoadFailed =>
        /\ instructionSet = NullDoc
        /\ error # Undef
        /\ ~isLoading
        /\ \A t \in 1..MaxTasks : tasks[t].kind # "load"

\* ------------------------------------------------------------- C28
IsPrefix(h, g) == Len(h) <= Len(g) /\ SubSeq(g, 1, Len(h)) = h

\* the blocks of a load that write ChatHistory: its start and its success
LoadWritesChat == lastEvent'.op \in {"fetchStart", "loadOk"}

\* C28: between two loads ChatHistory is append-only.  Every step that is
\* not a load's start or success (a question, an answer, a transformation
\* that succeeds or fails, or anything else) keeps the previous history as
\* a prefix of the new one and adds at most one message at its end.
C28_ChatAppendOnly ==
    [][~LoadWritesChat =>
         /\ IsPrefix(chatHistory, chatHistory')
         /\ Len(chatHistory') <= Len(chatHistory) + 1]_vars

\* a transformation answered after a question was asked and answered
C28_Witness ==
    /\ lastEvent.op = "modifyOk"
    /\ Len(chatHistory) = 4
    /\ chatHistory[1] = Msg("assistant", "loaded")
    /\ chatHistory[2].role = "user"
    /\ chatHistory[4].role = "assistant"

\* ------------------------------------------------------------- C29
\* the step issues the classification call of task t
ClassifyIssued(t) ==
    /\ tasks'[t] # tasks[t]
    /\ tasks'[t].kind = "send"
    /\ tasks'[t].stage = "classify"

\* the step issues the answer or the transformation call of utterance t
FollowUpIssued(t) ==
    /\ tasks'[t] # tasks[t]
    /\ \/ tasks'[t].kind = "send" /\ tasks'[t].stage = "answer"
       \/ tasks'[t].kind = "modify" /\ tasks'[t].via = "router"

\* the step appends the reply to utterance t
ReplyAppended(t) ==
    /\ tasks'[t] = Idle
    /\ \/ /\ lastEvent'.op = "answered"
          /\ tasks[t].kind = "send"
       \/ /\ lastEvent'.op = "modifyOk"
          /\ tasks[t].kind = "modify"
          /\ tasks[t].via = "router"

\* C29: for every accepted utterance the USER message is appended to
\* ChatHistory before a capability call for it is issued, and the reply is
\* appended after it.  The block that issues the classification call
\* appends the USER message; the answer or transformation call is issued
\* only by a later block of an utterance whose classification was issued;
\* the reply is appended, at the end of the history, only by a block later
\* still.
C29_UserMessageBeforeCalls ==
    [][\A t \in 1..MaxTasks :
         /\ ClassifyIssued(t) =>
               chatHistory' = Append(chatHistory,
                                     Msg("user", tasks'[t].message))
         /\ FollowUpIssued(t) =>
               /\ tasks[t].kind = "send"
               /\ tasks[t].stage = "classify"
               /\ chatHistory' = chatHistory
         /\ ReplyAppended(t) =>
               /\ tasks[t].kind = "modify" \/ tasks[t].stage = "answer"
               /\ Len(chatHistory') = Len(chatHistory) + 1
               /\ chatHistory'[Len(chatHistory')].role = "assistant"]_vars

\* a question was asked and answered with nothing in between
C29_Witness ==
    /\ lastEvent.op = "answered"
    /\ Len(chatHistory) = 3
    /\ chatHistory[2].role = "user"
    /\ chatHistory[3] \in {Msg("assistant", a) : a \in Answers}

C30_InBoundsFlipsOne ==
    [][(lastEvent'.op = "toggleCall"
          /\ lastEvent'.index <= Len(completedSteps)) =>
         /\ UNCHANGED <<instructionSet, chatHistory, isEcoApplied>>
         /\ Len(completedSteps') = Len(completedSteps)
         /\ \A j \in 1..Len(completedSteps) :
               completedSteps'[j] =
                 (IF j = lastEvent'.index THEN ~completedSteps[j]
                  ELSE completedSteps[j])]_vars

\* ------------------------------------------------------------- C31
\* the step is the continuation of transformation t, not an eco-swap, whose
\* call returned `parsed` and whose result was accepted
NonEcoAccepted(t, parsed) ==
    /\ ModifyReturn(t, parsed)
    /\ ~tasks[t].isEco
    /\ lastEvent'.op = "modifyOk"

\* C31: after a successful transformation that is not an eco-swap, a
\* hasAnimalProducts or sustainabilitySuggestion that the returned document
\* omits has, in the new document, the value it had in the document that
\* was current before; and across every transformation isFood keeps its
\* value.
C31_OmittedFieldsCarriedOver ==
    [][\A t \in 1..MaxTasks, parsed \in ModifyResponses :
         /\ NonEcoAccepted(t, parsed) =>
               /\ parsed.hasAnimalProducts = Undef =>
                     instructionSet'.hasAnimalProducts
                       = instructionSet.hasAnimalProducts
               /\ parsed.sustainabilitySuggestion = Undef =>
                     instructionSet'.sustainabilitySuggestion
                       = instructionSet.sustainabilitySuggestion
         /\ ModifyReturn(t, parsed) =>
               instructionSet'.isFood = instructionSet.isFood]_vars

\* ------------------------------------------------------------- C32
\* the step in which the classifier's summary for utterance t starts the
\* transformation
RoutedToTransform(t) ==
    /\ tasks[t].kind = "send"
    /\ tasks[t].stage = "classify"
    /\ tasks'[t].kind = "modify"

\* what the classifier can return as a summary
SummaryTexts == {DetectModificationIntent(o) : o \in ClassifierOutcomes} \ {Undef}

\* C32: when the classifier returns a summary for an utterance, the
\* instruction sent to the transformation is the original utterance and
\* not the summary; the summary is used only for the confirmation message,
\* which is what the accepted transformation appends to ChatHistory and
\* speaks.
C32_OriginalUtteranceIsPrompt ==
    [][\A t \in 1..MaxTasks :
         /\ RoutedToTransform(t) =>
               /\ tasks'[t].prompt = tasks[t].message
               /\ tasks'[t].prompt \notin SummaryTexts
               /\ tasks'[t].chatMsg \in
                     {ChatConfirmation(sm) : sm \in SummaryTexts}
         /\ (ReplyAppended(t) /\ tasks[t].kind = "modify") =>
               /\ chatHistory' =
                     Append(chatHistory, Msg("assistant", tasks[t].chatMsg))
               /\ ~isMuted => synth' = <<Utt(tasks[t].chatMsg, FALSE)>>]_vars

\* a routed transformation was accepted: its confirmation is the last
\* message and is being spoken
C32_Witness ==
    /\ lastEvent.op = "modifyOk"
    /\ Len(chatHistory) >= 3
    /\ chatHistory[Len(chatHistory) - 1] = Msg("user", "u1")
    /\ chatHistory[Len(chatHistory)] = Msg("assistant", "regenerated")
    /\ synth = <<Utt("regenerated", FALSE)>>

\* ------------------------------------------------------------- C33
\* handleSendMessage's guard lets an utterance through
UtteranceAccepted == instructionSet # NullDoc /\ ~isAnswering

\* C33: when the question-answering call fails the failure is not
\* propagated: the continuation appends exactly one message, of the
\* assistant role, to the history (which had the user's message appended
\* in an earlier step), sets no error and unmounts nothing, isAnswering is
\* false again, and the next utterance passes handleSendMessage's guard.
C33_AnswerFailureBecomesMessage ==
    [][\A t \in 1..MaxTasks :
         AnswerReturn(t, "fail") =>
            /\ Len(chatHistory') = Len(chatHistory) + 1
            /\ IsPrefix(chatHistory, chatHistory')
            /\ chatHistory'[Len(chatHistory')].role = "assistant"
            /\ error' = error
            /\ ~crashed'
            /\ ~isAnswering'
            /\ UtteranceAccepted']_vars

\* the apology follows the user's message, and the form is free again
C33_Witness ==
    /\ lastEvent.op = "answered"
    /\ Len(chatHistory) = 3
    /\ chatHistory[2] = Msg("user", "u1")
    /\ chatHistory[3] = Msg("assistant", "sorry")
    /\ UtteranceAccepted
    /\ ~isModifying

\* ------------------------------------------------------------- C34
\* the blocks that handle an utterance up to and along the question path:
\* its acceptance, the classification that routes it to the answer call,
\* and the continuation of that call
QuestionPathStep ==
    lastEvent'.op \in {"sendStart", "voiceSend", "answerStart", "answered",
                       "answerThrow"}

\* the blocks that install a document: the continuation of a load, or of a
\* transformation whose call returned a document
InstallsDocument ==
    lastEvent'.op \in {"loadOk", "loadThrow", "modifyOk", "modifyThrow"}

AnswerIssued(t) ==
    /\ tasks[t].kind = "send"
    /\ tasks[t].stage = "classify"
    /\ tasks'[t].kind = "send"
    /\ tasks'[t].stage = "answer"

\* C35: the document, the chat history and the completed-step flags passed
\* to the answer call are the current ones at the moment the call is
\* issued (the history up to the utterance itself, which is passed
\* separately): a step toggled or a message appended while the utterance
\* was being classified is part of what the capability receives.
C35_AnswerCallGetsCurrentValues ==
    [][\A t \in 1..MaxTasks :
         AnswerIssued(t) =>
            /\ tasks'[t].doc = instructionSet
            /\ tasks'[t].completed = completedSteps
            /\ Append(tasks'[t].chat, Msg("user", tasks'[t].message))
                 = chatHistory]_vars

\* ------------------------------------------------------------- C36
\* the step issues the transformation call of task t
TransformIssued(t) ==
    /\ tasks[t] = Idle \/ tasks[t].kind = "send"
    /\ tasks'[t].kind = "modify"

\* C36: the document sent to the transformation is the document that is
\* current when the call is issued, so that a transformation accepted
\* between the user's action and the issue of the call is part of what the
\* later transformation is applied to.
C36_TransformGetsCurrentDocument ==
    [][\A t \in 1..MaxTasks :
         TransformIssued(t) => tasks'[t].doc = instructionSet]_vars

\* ------------------------------------------------------------- C37
\* Request t was issued against the document before the last load: the
\* current document is as the load installed it (a transformation's
\* document is none of LoadedDocs, its title being the response's), and it
\* is not the document the request closed over.
IssuedBeforeLoad(t) ==
    /\ ~isLoading
    /\ instructionSet \in LoadedDocs
    /\ tasks[t].kind \in {"send", "modify"}
    /\ tasks[t].doc # instructionSet

\* the step is a continuation of request t
Continues(t) == tasks'[t] # tasks[t] /\ tasks[t] # Idle

\* C37: no result of a request issued against the previous document is
\* applied to a newly loaded one: a late classification, answer or
\* transformation result never replaces the new document, never resets
\* its CompletionState and never appends to its ChatHistory.
C37_LateResultsDiscarded ==
    [][\A t \in 1..MaxTasks :
         (IssuedBeforeLoad(t) /\ Continues(t)) =>
            UNCHANGED <<instructionSet, completedSteps, chatHistory>>]_vars

\* ------------------------------------------------------------- C38
\* a capability call of the class is outstanding
Outstanding(kind) == \E t \in 1..MaxTasks : tasks[t].kind = kind

\* C38: each busy flag is true in every state in which a call of its class
\* is outstanding: isLoading during an extraction or suggestion call,
\* isAnswering during a classification or answer call, isModifying during
\* a transformation call.
C38_BusyFlagsCoverCalls ==
    ~crashed =>
        /\ Outstanding("load") => isLoading
        /\ Outstanding("send") => isAnswering
        /\ Outstanding("modify") => isModifying

\* ------------------------------------------------------------- C39
\* C39: if every capability call eventually returns, every started load,
\* question and transformation terminates and isLoading, isAnswering and
\* isModifying each become false again (or the tree is unmounted and with
\* it the flags).
C39_BusyFlagsClear ==
    /\ isLoading ~> (~isLoading \/ crashed)
    /\ isAnswering ~> (~isAnswering \/ crashed)
    /\ isModifying ~> (~isModifying \/ crashed)

\* a transformation failed after a load and a question: nothing is
\* outstanding and no flag is set
C39_Witness ==
    /\ lastEvent.op = "modifyFail"
    /\ Len(chatHistory) >= 2
    /\ ~isLoading /\ ~isAnswering /\ ~isModifying
    /\ \A t \in 1..MaxTasks : tasks[t] = Idle

\* ------------------------------------------------------------- C40
\* C40: whenever isEcoApplied is true for a loaded food document, the
\* document's hasAnimalProducts is not true: the eco button is never
\* disabled as "already sustainable" while the document is flagged as
\* containing animal products.
C40_EcoAppliedMeansNoAnimalProducts ==
    (~crashed /\ instructionSet # NullDoc /\ Truthy(instructionSet.isFood)
       /\ isEcoApplied)
    => Falsy(instructionSet.hasAnimalProducts)

=============================================================================
